---- MODULE Spec2Model ----
(***************************************************************************)
(* State-machine model of the HDR tooling of this repository:              *)
(*   process_hdr.py        the Kalantari-dataset script (HDRutils merge    *)
(*                         followed by a Drago tone map),                  *)
(*   process_hdropencv.py  merge_hdr_opencv, extract_exposure_time_from_raw *)
(*                         and process_cr2_files.                          *)
(* One behaviour is one run of one entry point (variable prog).            *)
(***************************************************************************)
EXTENDS Integers, Sequences, FiniteSets, TLC

\* Python's None
None == [none |-> TRUE]
\* no exception raised
NoExc == "none"
\* a local that holds a list or an array and has not been assigned yet
Unset == <<>>
\* exposure_times=None: a value no list of exposure times is equal to
NoTimes == <<None>>

(***************************************************************************)
(* float32 arithmetic.  A float32 is [s, m, e]: sign s (0 or 1), mantissa  *)
(* m (0, or 2^23 <= m < 2^24) and exponent e, with value                   *)
(* (-1)^s * m * 2^e.  Products and quotients are rounded to nearest, ties  *)
(* to even, as IEEE-754 single precision does.  Only finite normal values  *)
(* are represented (no subnormal, infinity or NaN).  The 48-bit product of *)
(* two mantissas is computed in 12-bit limbs to stay inside machine        *)
(* integers.                                                               *)
(***************************************************************************)
TwoP12 == 2^12
TwoP22 == 2^22
TwoP23 == 2^23
TwoP24 == 2^24

F32Zero == [s |-> 0, m |-> 0, e |-> 0]

RECURSIVE NormUp(_, _)
\* n * 2^e with 0 < n < 2^24, shifted so that the mantissa has 24 bits
NormUp(n, e) ==
    IF n >= TwoP23 THEN [s |-> 0, m |-> n, e |-> e] ELSE NormUp(2 * n, e - 1)

\* the float32 of an integer n, |n| < 2^24 (exact)
F32Int(n) ==
    IF n = 0 THEN F32Zero
    ELSE IF n > 0 THEN NormUp(n, 0)
    ELSE [NormUp(-n, 0) EXCEPT !.s = 1]

\* round to nearest even: mant has 24 bits, rem is the discarded part, half its midpoint
F32Round(s, mant, rem, half, e) ==
    LET up == rem > half \/ (rem = half /\ mant % 2 = 1)
        m1 == IF up THEN mant + 1 ELSE mant
    IN  IF m1 = TwoP24 THEN [s |-> s, m |-> TwoP23, e |-> e + 1]
        ELSE [s |-> s, m |-> m1, e |-> e]

F32Mul(a, b) ==
    IF a.m = 0 \/ b.m = 0 THEN F32Zero
    ELSE
    LET ah == a.m \div TwoP12
        al == a.m % TwoP12
        bh == b.m \div TwoP12
        bl == b.m % TwoP12
        mid == ah * bl + al * bh
        lowraw == al * bl + (mid % TwoP12) * TwoP12
        L == lowraw % TwoP24
        H == ah * bh + (mid \div TwoP12) + (lowraw \div TwoP24)
        s == (a.s + b.s) % 2
    IN  IF H >= TwoP23
        THEN F32Round(s, H, L, TwoP23, a.e + b.e + 24)
        ELSE F32Round(s, 2 * H + (L \div TwoP23), L % TwoP23, TwoP22, a.e + b.e + 23)

RECURSIVE DivBits(_, _, _, _)
\* n more quotient bits of r/d by long division (r < d): <<quotient, remainder>>
DivBits(q, r, d, n) ==
    IF n = 0 THEN <<q, r>>
    ELSE IF 2 * r >= d THEN DivBits(2 * q + 1, 2 * r - d, d, n - 1)
    ELSE DivBits(2 * q, 2 * r, d, n - 1)

\* a / b for b # 0
F32Div(a, b) ==
    IF a.m = 0 THEN F32Zero
    ELSE
    LET s == (a.s + b.s) % 2
        big == a.m >= b.m
        D == IF big THEN DivBits(1, a.m - b.m, b.m, 24) ELSE DivBits(0, a.m, b.m, 25)
        sticky == IF D[2] = 0 THEN 0 ELSE 1
        \* guard bit and sticky bit as a remainder against the midpoint 2
        rem == 2 * (D[1] % 2) + sticky
    IN  F32Round(s, D[1] \div 2, rem, 2, a.e - b.e - (IF big THEN 23 ELSE 24))

RECURSIVE Pow2(_)
Pow2(n) == IF n = 0 THEN 1 ELSE 2 * Pow2(n - 1)

\* a < b
F32Less(a, b) ==
    LET key(x) == IF x.m = 0 THEN <<0, 0>> ELSE <<x.e, x.m>>
        magLess(x, y) ==
            /\ y.m # 0
            /\ \/ x.m = 0
               \/ x.e < y.e
               \/ x.e = y.e /\ x.m < y.m
    IN  IF a.s = 1 /\ a.m # 0
        THEN IF b.s = 1 /\ b.m # 0 THEN magLess(b, a) ELSE TRUE
        ELSE IF b.s = 1 /\ b.m # 0 THEN FALSE ELSE magLess(a, b)

\* np.clip(x, lo, hi) on one sample
F32Clip(x, lo, hi) ==
    IF F32Less(x, lo) THEN lo ELSE IF F32Less(hi, x) THEN hi ELSE x

\* C-style conversion of a float to an integer (astype): truncation toward zero.
\* Used on samples already clipped to a 16-bit range, so the result fits.
F32Trunc(x) ==
    LET mag == IF x.m = 0 \/ x.e <= -24 THEN 0
               ELSE IF x.e >= 0 THEN x.m * Pow2(x.e)
               ELSE x.m \div Pow2(-x.e)
    IN  IF x.s = 1 THEN -mag ELSE mag

\* cvRound: the nearest integer, ties to even (|x| < 2^24)
F32RoundEven(x) ==
    LET d == Pow2(-x.e)
        q == x.m \div d
        r == x.m % d
        mag == IF x.m = 0 \/ x.e < -24 THEN 0
               ELSE IF x.e >= 0 THEN x.m * Pow2(x.e)
               ELSE IF 2 * r > d \/ (2 * r = d /\ q % 2 = 1) THEN q + 1
               ELSE q
    IN  IF x.s = 1 THEN -mag ELSE mag

(***************************************************************************)
(* Bounds of the model.                                                    *)
(***************************************************************************)
MaxPaths == 6    \* image paths in a direct call of merge_hdr_opencv
MaxFiles == 6    \* .CR2 files in the scene folder of process_cr2_files
MaxTifs == 3     \* .tif files in the scene folder of process_hdr.py
MaxRadiance == 97   \* largest numerator of a radiance sample of the merged map

(***************************************************************************)
(* Exposure times.  A Python float is kept as the exact ratio it was       *)
(* written as; np.array(..., dtype=np.float32) rounds it to a float32.     *)
(***************************************************************************)
Rat(n, d) == [num |-> n, den |-> d]

\* one element of np.array(x, dtype=np.float32); a float32 stays as it is
ToFloat32(x) ==
    IF "m" \in DOMAIN x THEN x ELSE F32Div(F32Int(x.num), F32Int(x.den))

np_array_float32(xs) == [i \in 1..Len(xs) |-> ToFloat32(xs[i])]

\* the bracket ladder 1/8000, 1/1000, 1/125, 1/15, 1/2
default_exposures == <<Rat(1, 8000), Rat(1, 1000), Rat(1, 125), Rat(1, 15), Rat(1, 2)>>

\* xs[:n]
Take(xs, n) == SubSeq(xs, 1, IF n < Len(xs) THEN n ELSE Len(xs))

\* the shutter time of the i-th exposure of a bracket, as its metadata or its
\* caller states it (an input of the model)
ShutterOf(i) == Rat(i, 250)

(***************************************************************************)
(* Pixel data.  What the library stages compute from the pixels of one     *)
(* scene: the radiance map of the merge and the output of each tone-map    *)
(* operator on it (two samples each).                                      *)
(***************************************************************************)
F(n) == F32Int(n)
Q(n, d) == F32Div(F32Int(n), F32Int(d))

Scenes ==
    { [hdr |-> <<F(3), F(1)>>,      drago |-> <<Q(1, 4), Q(1, 2)>>,
       reinhard |-> <<Q(1, 2), F(1)>>,  mantiuk |-> <<Q(1, 10), Q(1, 3)>>],
      [hdr |-> <<F(87), F(-1)>>,    drago |-> <<Q(3, 2), Q(-1, 4)>>,
       reinhard |-> <<Q(3, 2), F(0)>>,  mantiuk |-> <<F(1), Q(-1, 8)>>],
      [hdr |-> <<Q(1, 3), F(95)>>,  drago |-> <<Q(1, 255), F(1)>>,
       reinhard |-> <<Q(1, 510), Q(2, 3)>>, mantiuk |-> <<Q(1, 765), F(2)>>],
      [hdr |-> <<F(0), F(-1)>>,     drago |-> <<F(0), F(0)>>,
       reinhard |-> <<F(0), Q(1, 100)>>, mantiuk |-> <<F(0), Q(-1, 2)>>],
      [hdr |-> <<F(-3), F(-1)>>,    drago |-> <<F(0), Q(1, 8)>>,
       reinhard |-> <<F(0), F(0)>>,     mantiuk |-> <<Q(1, 3), Q(1, 3)>>] }

\* The radiance maps of a wider family of scenes: the first sample is any
\* n/d (as float32) with n up to MaxRadiance, positive, zero or negative,
\* the second one lies below, inside or above that range.
Radiances == { Q(n, d) : n \in -2..MaxRadiance, d \in {1, 3, 7} }

RadianceScenes ==
    { [hdr |-> <<a, b>>,            drago |-> <<Q(1, 4), Q(1, 2)>>,
       reinhard |-> <<Q(1, 2), F(1)>>,  mantiuk |-> <<Q(1, 10), Q(1, 3)>>] :
      a \in Radiances, b \in {F(-1), Q(1, 3), F(50)} }

RECURSIVE SeqMax(_)
\* np.max over the samples
SeqMax(xs) ==
    IF Len(xs) = 1 THEN xs[1]
    ELSE LET rest == SeqMax(Tail(xs))
         IN  IF F32Less(xs[1], rest) THEN rest ELSE xs[1]

Clamp(n, lo, hi) == IF n < lo THEN lo ELSE IF n > hi THEN hi ELSE n

\* cv2.imwrite of a float image to an 8-bit format: convertTo(CV_8U), i.e.
\* saturate_cast<uchar>(cvRound(v)) per sample
imwrite_8u(img) == [i \in 1..Len(img) |-> Clamp(F32RoundEven(img[i]), 0, 255)]

\* k * img elementwise in float32
Scaled(k, img) == [i \in 1..Len(img) |-> F32Mul(F(k), img[i])]

(***************************************************************************)
(* State.                                                                  *)
(***************************************************************************)
VARIABLES
    prog,               \* the entry point this behaviour runs
    pc,                 \* the statement about to execute
    exc,                \* the exception that ended the run, or NoExc
    libs,               \* which optional libraries are installed
    output_dir,         \* "absent", "existing", or "created" by this run
    files,              \* output files written: name -> content
    scene_path_exists,  \* os.path.exists(scene_path)
    image_files,        \* process_cr2_files / process_hdr.py: image_files
    exposure_file_exists, \* process_hdr.py: exposure.txt is there
    hdr_image,          \* process_hdr.py
    ldr_image,          \* process_hdr.py
    cr2_exposure_times, \* process_cr2_files: exposure_times
    extracted,          \* history: what extract_exposure_time_from_raw returned per file
    times_by_file,      \* history: exposure_times as it left the first loop
    jpeg_files,         \* process_cr2_files
    ci,                 \* process_cr2_files: files consumed by the current loop
    cr2_file,           \* extract_exposure_time_from_raw: the file's metadata
    exposure_time,      \* extract_exposure_time_from_raw: the value returned
    image_paths,        \* merge_hdr_opencv parameters and locals from here on
    exposure_times,
    tone_mapping,
    images,
    rd,                 \* image paths consumed by the reading loop
    responseDebevec,
    merged_with,        \* history: the response curve handed to the merge
    scene,              \* the pixel-level results of the library for this scene
    hdrDebevec,
    tiff_16bit,
    ldrDrago,
    ldrReinhard,
    ldrMantiuk,
    stages,             \* history: the stages executed, in order
    result              \* the value returned

mergeVars == <<image_paths, exposure_times, tone_mapping, images, rd, responseDebevec,
               merged_with, scene, hdrDebevec, tiff_16bit, ldrDrago, ldrReinhard,
               ldrMantiuk, stages>>
cr2Vars == <<cr2_exposure_times, extracted, times_by_file, jpeg_files, ci>>
scriptVars == <<exposure_file_exists, hdr_image, ldr_image>>
extractVars == <<cr2_file, exposure_time>>
envVars == <<prog, libs, scene_path_exists, image_files>>
outVars == <<output_dir, files>>

vars == <<prog, pc, exc, libs, output_dir, files, scene_path_exists, image_files,
          exposure_file_exists, hdr_image, ldr_image, cr2_exposure_times, extracted,
          times_by_file, jpeg_files, ci, cr2_file, exposure_time, image_paths,
          exposure_times, tone_mapping, images, rd, responseDebevec, merged_with,
          scene, hdrDebevec, tiff_16bit, ldrDrago, ldrReinhard, ldrMantiuk, stages,
          result>>

NoFiles == [n \in {} |-> 0]
AllLibs == [rawpy |-> TRUE, imageio |-> TRUE, exifread |-> TRUE, PIL |-> TRUE]

\* the locals of merge_hdr_opencv before it is called
MergeIdle ==
    /\ image_paths = <<>> /\ exposure_times = NoTimes /\ tone_mapping = TRUE
    /\ images = <<>> /\ rd = 0 /\ responseDebevec = None /\ merged_with = None
    /\ scene = None /\ hdrDebevec = Unset /\ tiff_16bit = Unset /\ ldrDrago = Unset
    /\ ldrReinhard = Unset /\ ldrMantiuk = Unset /\ stages = <<>>

Cr2Idle ==
    /\ cr2_exposure_times = <<>> /\ extracted = <<>> /\ times_by_file = Unset
    /\ jpeg_files = <<>> /\ ci = 0

ScriptIdle == exposure_file_exists = FALSE /\ hdr_image = Unset /\ ldr_image = Unset

ExtractIdle == cr2_file = None /\ exposure_time = None

(***************************************************************************)
(* merge_hdr_opencv(image_paths, exposure_times=None, output_dir,          *)
(*                  output_prefix, tone_mapping=True)                      *)
(***************************************************************************)
\* A direct call: any list of up to MaxPaths paths, each readable or not by
\* cv2.imread, all of one shape or with one path of another shape; exposure
\* times either omitted or one per path.  Field t of a path is the float32 of
\* the exposure time the caller passed for it (None when none was passed).
InitMerge ==
    /\ prog = "merge" /\ pc = "m_mkdir" /\ exc = NoExc /\ libs = AllLibs
    /\ output_dir \in {"absent", "existing"} /\ files = NoFiles
    /\ scene_path_exists = FALSE /\ image_files = <<>>
    /\ ScriptIdle /\ Cr2Idle /\ ExtractIdle
    /\ \E n \in 0..MaxPaths, odd \in 0..MaxPaths, supplied \in BOOLEAN :
         /\ odd <= n
         /\ \E readable \in [1..n -> BOOLEAN] :
              image_paths = [i \in 1..n |->
                  [id |-> i, readable |-> readable[i],
                   shape |-> IF i = odd THEN 2 ELSE 1,
                   t |-> IF supplied THEN ToFloat32(ShutterOf(i)) ELSE None]]
         /\ exposure_times = IF supplied THEN [i \in 1..n |-> ShutterOf(i)] ELSE NoTimes
    /\ tone_mapping \in BOOLEAN
    /\ images = <<>> /\ rd = 0 /\ responseDebevec = None /\ merged_with = None
    /\ scene = None /\ hdrDebevec = Unset /\ tiff_16bit = Unset /\ ldrDrago = Unset
    /\ ldrReinhard = Unset /\ ldrMantiuk = Unset /\ stages = <<>>
    /\ result = None

\* an exception leaves the function; nothing in this repository catches it
Raise(e) == pc' = "raised" /\ exc' = e

\* lines 9-11
MakeOutputDir ==
    /\ pc = "m_mkdir"
    /\ output_dir' = IF output_dir = "absent" THEN "created" ELSE output_dir
    /\ pc' = "m_read"
    /\ UNCHANGED <<exc, files, result, envVars, mergeVars, cr2Vars, scriptVars, extractVars>>

\* lines 16-21: one iteration of the reading loop
ReadImage ==
    /\ pc = "m_read" /\ rd < Len(image_paths)
    /\ LET p == image_paths[rd + 1]
       IN  images' = IF p.readable
                     THEN Append(images, [src |-> p.id, shape |-> p.shape, t |-> p.t,
                                          aligned |-> FALSE])
                     ELSE images
    /\ rd' = rd + 1
    /\ UNCHANGED <<pc, exc, result, envVars, outVars, cr2Vars, scriptVars, extractVars,
                   image_paths, exposure_times, tone_mapping, responseDebevec,
                   merged_with, scene, hdrDebevec, tiff_16bit, ldrDrago, ldrReinhard,
                   ldrMantiuk, stages>>

\* lines 23-24
EnoughImages(n) == n >= 2

CheckImageCount ==
    /\ pc = "m_read" /\ rd = Len(image_paths)
    /\ IF EnoughImages(Len(images))
       THEN pc' = "m_times" /\ exc' = exc
       ELSE Raise("ValueError")
    /\ UNCHANGED <<result, envVars, outVars, mergeVars, cr2Vars, scriptVars, extractVars>>

\* a variant of Stages that calibrates before it aligns
StagesCalibrateFirst ==
    <<"m_calibrate", "m_align", "m_merge", "m_write_hdr", "m_tiff",
      "m_drago", "m_reinhard", "m_mantiuk", "m_return">>

\* the order of the statements of lines 37-104
Stages == <<"m_align", "m_calibrate", "m_merge", "m_write_hdr", "m_tiff",
            "m_drago", "m_reinhard", "m_mantiuk", "m_return">>

StageIndex(p) == CHOOSE i \in 1..Len(Stages) : Stages[i] = p
AfterStage(p) == Stages[StageIndex(p) + 1]

\* lines 26-32
HandleExposureTimes ==
    /\ pc = "m_times"
    /\ exposure_times' =
         np_array_float32(IF exposure_times = NoTimes
                          THEN Take(np_array_float32(default_exposures), Len(images))
                          ELSE exposure_times)
    /\ pc' = Stages[1]
    /\ UNCHANGED <<exc, result, envVars, outVars, cr2Vars, scriptVars, extractVars,
                   image_paths, tone_mapping, images, rd, responseDebevec, merged_with,
                   scene, hdrDebevec, tiff_16bit, ldrDrago, ldrReinhard, ldrMantiuk,
                   stages>>

SameShape(imgs) == \A i, j \in 1..Len(imgs) : imgs[i].shape = imgs[j].shape

\* lines 37-39.  AlignMTB.process checks the image dimensions first (a
\* cv2.error when they differ) and then shifts the images in place.
AlignImages ==
    /\ pc = "m_align"
    /\ stages' = Append(stages, "align")
    /\ IF SameShape(images)
       THEN /\ images' = [i \in 1..Len(images) |-> [images[i] EXCEPT !.aligned = TRUE]]
            /\ pc' = AfterStage("m_align") /\ exc' = exc
       ELSE images' = images /\ Raise("cv2.error")
    /\ UNCHANGED <<result, envVars, outVars, cr2Vars, scriptVars, extractVars,
                   image_paths, exposure_times, tone_mapping, rd, responseDebevec,
                   merged_with, scene, hdrDebevec, tiff_16bit, ldrDrago, ldrReinhard,
                   ldrMantiuk>>

AllAligned(imgs) == \A i \in 1..Len(imgs) : imgs[i].aligned

\* lines 42-44.  CalibrateDebevec.process asserts one time per image.
CalibrateResponse ==
    /\ pc = "m_calibrate"
    /\ stages' = Append(stages, "calibrate")
    /\ IF Len(images) = Len(exposure_times)
       THEN /\ responseDebevec' = [n |-> Len(images), aligned |-> AllAligned(images)]
            /\ pc' = AfterStage("m_calibrate") /\ exc' = exc
       ELSE responseDebevec' = responseDebevec /\ Raise("cv2.error")
    /\ UNCHANGED <<result, envVars, outVars, cr2Vars, scriptVars, extractVars,
                   image_paths, exposure_times, tone_mapping, images, rd, merged_with,
                   scene, hdrDebevec, tiff_16bit, ldrDrago, ldrReinhard, ldrMantiuk>>

\* lines 47-49.  MergeDebevec.process asserts one time per image; what it
\* computes is one of the scenes in S.
MergeImagesFrom(S) ==
    /\ pc = "m_merge"
    /\ stages' = Append(stages, "merge")
    /\ IF Len(images) = Len(exposure_times)
       THEN /\ \E sc \in S : scene' = sc /\ hdrDebevec' = sc.hdr
            /\ merged_with' = responseDebevec
            /\ pc' = AfterStage("m_merge") /\ exc' = exc
       ELSE UNCHANGED <<scene, hdrDebevec, merged_with>> /\ Raise("cv2.error")
    /\ UNCHANGED <<result, envVars, outVars, cr2Vars, scriptVars, extractVars,
                   image_paths, exposure_times, tone_mapping, images, rd,
                   responseDebevec, tiff_16bit, ldrDrago, ldrReinhard, ldrMantiuk>>

MergeImages == MergeImagesFrom(Scenes)

\* cv2.imwrite(path, data)
Written(name, data) == (name :> data) @@ files

\* lines 52-54
WriteHdr ==
    /\ pc = "m_write_hdr"
    /\ stages' = Append(stages, "hdr")
    /\ files' = Written("hdr", hdrDebevec)
    /\ pc' = AfterStage("m_write_hdr")
    /\ UNCHANGED <<exc, result, envVars, output_dir, cr2Vars, scriptVars, extractVars,
                   image_paths, exposure_times, tone_mapping, images, rd,
                   responseDebevec, merged_with, scene, hdrDebevec, tiff_16bit,
                   ldrDrago, ldrReinhard, ldrMantiuk>>

\* 0.8 * 65535 evaluates to exactly 52428.0 (line 64)
ScaledTop == 52428
UInt16Max == 65535

\* a variant of ScaleFactor that uses the whole 16-bit range
ScaleFactorFullRange(max_luminance) ==
    IF F32Less(F32Zero, max_luminance)
    THEN F32Div(F(UInt16Max), max_luminance)
    ELSE F(1)

\* lines 62-66
ScaleFactor(max_luminance) ==
    IF F32Less(F32Zero, max_luminance)
    THEN F32Div(F(ScaledTop), max_luminance)
    ELSE F(1)

\* line 69: np.clip(hdr * scale_factor, 0, 65535).astype(np.uint16)
ToUInt16(hdr, scale_factor) ==
    [i \in 1..Len(hdr) |->
        F32Trunc(F32Clip(F32Mul(hdr[i], scale_factor), F32Zero, F(UInt16Max)))]

\* lines 56-76
WriteTiff ==
    /\ pc = "m_tiff"
    /\ stages' = Append(stages, "tiff")
    /\ tiff_16bit' = ToUInt16(hdrDebevec, ScaleFactor(SeqMax(hdrDebevec)))
    /\ files' = Written("tiff_16bit", tiff_16bit')
    /\ pc' = IF tone_mapping THEN AfterStage("m_tiff") ELSE "m_return"
    /\ UNCHANGED <<exc, result, envVars, output_dir, cr2Vars, scriptVars, extractVars,
                   image_paths, exposure_times, tone_mapping, images, rd,
                   responseDebevec, merged_with, scene, hdrDebevec, ldrDrago,
                   ldrReinhard, ldrMantiuk>>

\* lines 78-85
TonemapDrago ==
    /\ pc = "m_drago"
    /\ stages' = Append(stages, "drago")
    /\ ldrDrago' = Scaled(3, scene.drago)
    /\ files' = Written("drago", imwrite_8u(Scaled(255, ldrDrago')))
    /\ pc' = AfterStage("m_drago")
    /\ UNCHANGED <<exc, result, envVars, output_dir, cr2Vars, scriptVars, extractVars,
                   image_paths, exposure_times, tone_mapping, images, rd,
                   responseDebevec, merged_with, scene, hdrDebevec, tiff_16bit,
                   ldrReinhard, ldrMantiuk>>

\* lines 88-94
TonemapReinhard ==
    /\ pc = "m_reinhard"
    /\ stages' = Append(stages, "reinhard")
    /\ ldrReinhard' = scene.reinhard
    /\ files' = Written("reinhard", imwrite_8u(Scaled(255, ldrReinhard')))
    /\ pc' = AfterStage("m_reinhard")
    /\ UNCHANGED <<exc, result, envVars, output_dir, cr2Vars, scriptVars, extractVars,
                   image_paths, exposure_times, tone_mapping, images, rd,
                   responseDebevec, merged_with, scene, hdrDebevec, tiff_16bit,
                   ldrDrago, ldrMantiuk>>

\* lines 97-104
TonemapMantiuk ==
    /\ pc = "m_mantiuk"
    /\ stages' = Append(stages, "mantiuk")
    /\ ldrMantiuk' = Scaled(3, scene.mantiuk)
    /\ files' = Written("mantiuk", imwrite_8u(Scaled(255, ldrMantiuk')))
    /\ pc' = AfterStage("m_mantiuk")
    /\ UNCHANGED <<exc, result, envVars, output_dir, cr2Vars, scriptVars, extractVars,
                   image_paths, exposure_times, tone_mapping, images, rd,
                   responseDebevec, merged_with, scene, hdrDebevec, tiff_16bit,
                   ldrDrago, ldrReinhard>>

\* lines 107-115; called from process_cr2_files, the value is returned by it
\* in turn (lines 261-268)
ReturnPaths ==
    /\ pc = "m_return"
    /\ result' = [hdr |-> "hdr", tiff_16bit |-> "tiff_16bit",
                  tone_mapped |-> DOMAIN files \ {"hdr", "tiff_16bit"}]
    /\ pc' = "done"
    /\ UNCHANGED <<exc, envVars, outVars, mergeVars, cr2Vars, scriptVars, extractVars>>

MergeNext ==
    \/ MakeOutputDir \/ ReadImage \/ CheckImageCount \/ HandleExposureTimes
    \/ AlignImages \/ CalibrateResponse \/ MergeImages \/ WriteHdr \/ WriteTiff
    \/ TonemapDrago \/ TonemapReinhard \/ TonemapMantiuk \/ ReturnPaths

(***************************************************************************)
(* extract_exposure_time_from_raw(cr2_file)                                *)
(*                                                                         *)
(* A CR2 file is described by what each metadata source finds in it:       *)
(*   raw_opens     rawpy.imread(cr2_file) succeeds                         *)
(*   raw_exposure  raw.raw_metadata.exposure_time, None when reading the   *)
(*                 attribute raises                                        *)
(*   exif          what exifread finds: kind "error" (file or parser       *)
(*                 error), "notag", or "tag" with the text num/den         *)
(*   pil           what Pillow finds: kind "error", "noexif", "notag", or  *)
(*                 "tag" with its value                                    *)
(***************************************************************************)
ExifTag(n, d) == [kind |-> "tag", num |-> n, den |-> d]
PilTag(r) == [kind |-> "tag", value |-> r]

\* the files whose sources, where they yield a time, yield vr, ve and vp
Metas(id, vr, ve, vp) ==
    { [id |-> id, raw_opens |-> o, raw_exposure |-> r, exif |-> e, pil |-> q] :
        o \in BOOLEAN, r \in {None, vr},
        e \in {[kind |-> "error"], [kind |-> "notag"], ExifTag(ve.num, ve.den),
               ExifTag(1, 0)},
        q \in {[kind |-> "error"], [kind |-> "noexif"], [kind |-> "notag"], PilTag(vp)} }

\* lines 140-159: None when the step returns nothing and control falls through
exifread_step(f, l) ==
    IF ~l.exifread THEN None                      \* ImportError
    ELSE IF f.exif.kind # "tag" THEN None         \* error caught, or tag absent
    ELSE IF f.exif.den = 0 THEN None              \* ZeroDivisionError caught
    ELSE Rat(f.exif.num, f.exif.den)

\* lines 162-177
pillow_step(f, l) ==
    IF ~l.PIL THEN None
    ELSE IF f.pil.kind # "tag" THEN None
    ELSE f.pil.value

\* lines 127-184
extract_exposure_time_from_raw(f, l) ==
    IF ~l.rawpy \/ ~f.raw_opens THEN None         \* caught by the outer except
    ELSE IF f.raw_exposure # None THEN f.raw_exposure
    ELSE IF exifread_step(f, l) # None THEN exifread_step(f, l)
    ELSE pillow_step(f, l)

ExtractLibs == [rawpy : BOOLEAN, imageio : {TRUE}, exifread : BOOLEAN, PIL : BOOLEAN]

InitExtract ==
    /\ prog = "extract" /\ pc = "x_call" /\ exc = NoExc
    /\ libs \in ExtractLibs
    /\ cr2_file \in Metas(1, Rat(1, 60), Rat(1, 50), Rat(1, 40))
    /\ exposure_time = None
    /\ output_dir = "absent" /\ files = NoFiles
    /\ scene_path_exists = FALSE /\ image_files = <<>>
    /\ ScriptIdle /\ Cr2Idle /\ MergeIdle /\ result = None

ExtractCall ==
    /\ pc = "x_call"
    /\ exposure_time' = extract_exposure_time_from_raw(cr2_file, libs)
    /\ pc' = "done"
    /\ UNCHANGED <<exc, result, envVars, outVars, mergeVars, cr2Vars, scriptVars, cr2_file>>

(***************************************************************************)
(* process_cr2_files(dataset_path, scene_id, output_dir)                   *)
(***************************************************************************)
Cr2Libs ==
    { AllLibs, [AllLibs EXCEPT !.rawpy = FALSE], [AllLibs EXCEPT !.imageio = FALSE] }

\* A first run on a scene folder: the output folder does not exist yet.
InitCr2 ==
    /\ prog = "cr2" /\ pc = "c_check_folder" /\ exc = NoExc
    /\ libs \in Cr2Libs
    /\ output_dir = "absent" /\ files = NoFiles
    /\ scene_path_exists \in BOOLEAN
    /\ \E n \in 0..MaxFiles :
         /\ ~scene_path_exists => n = 0
         /\ image_files = [i \in 1..n |-> i]
    /\ ScriptIdle /\ Cr2Idle /\ ExtractIdle /\ MergeIdle /\ result = None

\* return None
ReturnNone == result' = None /\ pc' = "done"

\* lines 192-194
Cr2CheckFolder ==
    /\ pc = "c_check_folder"
    /\ IF scene_path_exists THEN pc' = "c_list" /\ result' = result ELSE ReturnNone
    /\ UNCHANGED <<exc, envVars, outVars, mergeVars, cr2Vars, scriptVars, extractVars>>

\* lines 197-204
Cr2ListFiles ==
    /\ pc = "c_list"
    /\ IF image_files # <<>> THEN pc' = "c_extract" /\ result' = result ELSE ReturnNone
    /\ UNCHANGED <<exc, envVars, outVars, mergeVars, cr2Vars, scriptVars, extractVars>>

\* a variant of FallbackExposure that wraps around the ladder
FallbackExposureWrap(idx) == default_exposures[(idx % Len(default_exposures)) + 1]

\* lines 215-220, idx counted from 0
FallbackExposure(idx) ==
    IF idx < Len(default_exposures)
    THEN default_exposures[idx + 1]
    ELSE default_exposures[Len(default_exposures)]

\* lines 208-223: one iteration of the metadata loop; the loop ends after the
\* last file
Cr2ExtractOne ==
    /\ pc = "c_extract" /\ ci < Len(image_files)
    /\ \E f \in Metas(image_files[ci + 1], ShutterOf(ci + 1), ShutterOf(ci + 1),
                      ShutterOf(ci + 1)) :
         LET t == extract_exposure_time_from_raw(f, libs)
             appended == Append(cr2_exposure_times,
                                IF t # None THEN t
                                ELSE FallbackExposure(Len(cr2_exposure_times)))
         IN  /\ cr2_exposure_times' = appended
             /\ extracted' = Append(extracted, t)
             /\ IF ci + 1 = Len(image_files)
                THEN pc' = "c_convert" /\ ci' = 0 /\ times_by_file' = appended
                ELSE pc' = pc /\ ci' = ci + 1 /\ times_by_file' = times_by_file
    /\ UNCHANGED <<exc, result, envVars, outVars, mergeVars, scriptVars, extractVars,
                   jpeg_files>>

\* lines 227-250: one iteration of the conversion loop.  A missing rawpy or
\* imageio ends the function; a file that fails to convert is skipped.
Cr2ConvertOne ==
    /\ pc = "c_convert" /\ ci < Len(image_files)
    /\ IF ~libs.rawpy \/ ~libs.imageio
       THEN ReturnNone /\ UNCHANGED <<jpeg_files, ci>>
       ELSE /\ \E converts \in BOOLEAN :
                 jpeg_files' = IF converts
                               THEN Append(jpeg_files, image_files[ci + 1])
                               ELSE jpeg_files
            /\ ci' = ci + 1
            /\ pc' = IF ci + 1 = Len(image_files) THEN "c_count" ELSE pc
            /\ result' = result
    /\ UNCHANGED <<exc, envVars, outVars, mergeVars, scriptVars, extractVars,
                   cr2_exposure_times, extracted, times_by_file>>

\* lines 252-254
Cr2CheckCount ==
    /\ pc = "c_count"
    /\ IF EnoughImages(Len(jpeg_files))
       THEN pc' = "c_call" /\ result' = result
       ELSE ReturnNone
    /\ UNCHANGED <<exc, envVars, outVars, mergeVars, cr2Vars, scriptVars, extractVars>>

\* lines 256-266: the call of merge_hdr_opencv(jpeg_files, exposure_times, ...).
\* The JPEGs were just written by imageio, all from one camera.
Cr2CallMerge ==
    /\ pc = "c_call"
    /\ cr2_exposure_times' =
         np_array_float32(Take(cr2_exposure_times, Len(jpeg_files)))
    /\ image_paths' = [k \in 1..Len(jpeg_files) |->
                         [id |-> jpeg_files[k], readable |-> TRUE, shape |-> 1,
                          t |-> cr2_exposure_times'[k]]]
    /\ exposure_times' = cr2_exposure_times'
    /\ tone_mapping' = TRUE
    /\ pc' = "m_mkdir"
    /\ UNCHANGED <<exc, result, envVars, outVars, scriptVars, extractVars, extracted,
                   times_by_file, jpeg_files, ci, images, rd, responseDebevec,
                   merged_with, scene, hdrDebevec, tiff_16bit, ldrDrago, ldrReinhard,
                   ldrMantiuk, stages>>

Cr2Next ==
    \/ Cr2CheckFolder \/ Cr2ListFiles \/ Cr2ExtractOne \/ Cr2ConvertOne
    \/ Cr2CheckCount \/ Cr2CallMerge

(***************************************************************************)
(* process_hdr.py, a script: its module-level statements                   *)
(***************************************************************************)
\* A .tif file is loadable or not by cv2.imread and has a shape.  Without
\* the scene folder there are no files.  output_dir stands for the two
\* output folders, which the script never creates.
InitScript ==
    /\ prog = "script" /\ pc = "s_check_folder" /\ exc = NoExc /\ libs = AllLibs
    /\ output_dir \in {"absent", "existing"} /\ files = NoFiles
    /\ scene_path_exists \in BOOLEAN
    /\ exposure_file_exists \in BOOLEAN
    /\ \E n \in 0..MaxTifs :
         /\ ~scene_path_exists => n = 0 /\ ~exposure_file_exists
         /\ image_files \in [1..n -> [loadable : BOOLEAN, shape : {1, 2}]]
    /\ hdr_image = Unset /\ ldr_image = Unset
    /\ Cr2Idle /\ ExtractIdle /\ MergeIdle /\ result = None

\* exit()
Exit == pc' = "exited"

\* lines 18-28
ScriptCheckFolder ==
    /\ pc = "s_check_folder"
    /\ IF scene_path_exists THEN pc' = "s_list" ELSE Exit
    /\ UNCHANGED <<exc, result, envVars, outVars, mergeVars, cr2Vars, scriptVars,
                   extractVars>>

\* lines 31-35
ScriptListFiles ==
    /\ pc = "s_list"
    /\ IF image_files # <<>> THEN pc' = "s_load" ELSE Exit
    /\ UNCHANGED <<exc, result, envVars, outVars, mergeVars, cr2Vars, scriptVars,
                   extractVars>>

\* line 38: cv2.imread gives None for a file it cannot load
ScriptLoadImages ==
    /\ pc = "s_load"
    /\ images' = [i \in 1..Len(image_files) |->
                    IF image_files[i].loadable
                    THEN [src |-> i, shape |-> image_files[i].shape]
                    ELSE None]
    /\ pc' = "s_expfile"
    /\ UNCHANGED <<exc, result, envVars, outVars, cr2Vars, scriptVars, extractVars,
                   image_paths, exposure_times, tone_mapping, rd, responseDebevec,
                   merged_with, scene, hdrDebevec, tiff_16bit, ldrDrago, ldrReinhard,
                   ldrMantiuk, stages>>

\* lines 41-46
ScriptCheckExposureFile ==
    /\ pc = "s_expfile"
    /\ IF exposure_file_exists THEN pc' = "s_merge" ELSE Exit
    /\ UNCHANGED <<exc, result, envVars, outVars, mergeVars, cr2Vars, scriptVars,
                   extractVars>>

\* line 49: HDRutils' merge either raises or returns a radiance map
ScriptMerge ==
    /\ pc = "s_merge"
    /\ \/ /\ Raise("Exception")
          /\ UNCHANGED <<scene, hdr_image>>
       \/ /\ \E sc \in Scenes : scene' = sc /\ hdr_image' = sc.hdr
          /\ pc' = "s_write_hdr" /\ exc' = exc
    /\ UNCHANGED <<result, envVars, outVars, cr2Vars, extractVars, exposure_file_exists,
                   ldr_image, image_paths, exposure_times, tone_mapping, images, rd,
                   responseDebevec, merged_with, hdrDebevec, tiff_16bit, ldrDrago,
                   ldrReinhard, ldrMantiuk, stages>>

\* cv2.imwrite into a folder that may not exist (it then writes nothing)
WrittenIfDir(name, data) == IF output_dir = "absent" THEN files ELSE Written(name, data)

\* lines 52-54
ScriptWriteHdr ==
    /\ pc = "s_write_hdr"
    /\ files' = WrittenIfDir("exr", hdr_image)
    /\ pc' = "s_tonemap"
    /\ UNCHANGED <<exc, result, envVars, output_dir, mergeVars, cr2Vars, scriptVars,
                   extractVars>>

UInt8Max == 255

\* line 59: np.clip(ldr * 255, 0, 255).astype(np.uint8)
ToUInt8(ldr) ==
    [i \in 1..Len(ldr) |->
        F32Trunc(F32Clip(F32Mul(ldr[i], F(UInt8Max)), F32Zero, F(UInt8Max)))]

\* lines 57-59
ScriptTonemap ==
    /\ pc = "s_tonemap"
    /\ ldr_image' = ToUInt8(scene.drago)
    /\ pc' = "s_write_ldr"
    /\ UNCHANGED <<exc, result, envVars, outVars, mergeVars, cr2Vars, extractVars,
                   exposure_file_exists, hdr_image>>

\* line 64: (ldr_image * 255).astype(np.uint8) on a uint8 array: the product
\* is a uint8 and wraps modulo 256
UInt8Times255(img) == [i \in 1..Len(img) |-> (img[i] * UInt8Max) % (UInt8Max + 1)]

\* lines 63-65
ScriptWriteLdr ==
    /\ pc = "s_write_ldr"
    /\ files' = WrittenIfDir("ldr_jpg", UInt8Times255(ldr_image))
    /\ pc' = "done"
    /\ UNCHANGED <<exc, result, envVars, output_dir, mergeVars, cr2Vars, scriptVars,
                   extractVars>>

ScriptNext ==
    \/ ScriptCheckFolder \/ ScriptListFiles \/ ScriptLoadImages
    \/ ScriptCheckExposureFile \/ ScriptMerge \/ ScriptWriteHdr \/ ScriptTonemap
    \/ ScriptWriteLdr

(***************************************************************************)
(* The system: one run of one entry point.                                 *)
(***************************************************************************)
Init == InitMerge \/ InitCr2 \/ InitExtract \/ InitScript
Next == MergeNext \/ Cr2Next \/ ExtractCall \/ ScriptNext
Spec == Init /\ [][Next]_vars

(***************************************************************************)
(* merge_hdr_opencv on a bracket of two readable exposures of one shape    *)
(* with their times, over the wider family of radiance maps.               *)
(***************************************************************************)
InitRadiance ==
    /\ InitMerge
    /\ Len(image_paths) = 2 /\ exposure_times # NoTimes
    /\ \A i \in 1..Len(image_paths) : image_paths[i].readable /\ image_paths[i].shape = 1

MergeRadiance == MergeImagesFrom(RadianceScenes)

RadianceNext ==
    \/ MakeOutputDir \/ ReadImage \/ CheckImageCount \/ HandleExposureTimes
    \/ AlignImages \/ CalibrateResponse \/ MergeRadiance \/ WriteHdr \/ WriteTiff
    \/ TonemapDrago \/ TonemapReinhard \/ TonemapMantiuk \/ ReturnPaths

SpecRadiance == InitRadiance /\ [][RadianceNext]_vars

(***************************************************************************)
(* Properties.                                                             *)
(***************************************************************************)
InMergeStages == pc \in {"m_align", "m_calibrate", "m_merge"}

\* the images cv2.imread did load (process_hdr.py keeps a None for the others)
Loaded(imgs) == {i \in 1..Len(imgs) : imgs[i] # None}

\* C1: no merge is started on fewer than two successfully loaded images:
\* merge_hdr_opencv reaches alignment, calibration and merging only with at
\* least 2 images read (and raises ValueError otherwise), process_cr2_files
\* calls merge_hdr_opencv only with at least 2 converted files, and
\* process_hdr.py reaches its merge call only with at least 2 loaded images.
C1_MergeNeedsTwoImages ==
    /\ InMergeStages => Len(images) >= 2
    /\ exc = "ValueError" => Len(images) < 2
    /\ prog = "cr2" /\ pc = "m_mkdir" => Len(jpeg_files) >= 2
    /\ prog = "script" /\ pc = "s_merge" => Cardinality(Loaded(images)) >= 2

\* C2: whenever alignment, calibration or merging runs in merge_hdr_opencv,
\* there is exactly one exposure time per image read, and the i-th time is
\* the one passed for the i-th image read.
C2_TimesParallelToImages ==
    InMergeStages =>
        /\ Len(exposure_times) = Len(images)
        /\ \A i \in 1..Len(images) :
              images[i].t # None => exposure_times[i] = images[i].t

\* C3: the k-th exposure time process_cr2_files passes to merge_hdr_opencv
\* is the time determined for the CR2 file the k-th JPEG passed came from.
C3_JpegTaggedWithOwnTime ==
    prog = "cr2" /\ pc = "m_mkdir" =>
        /\ Len(exposure_times) = Len(jpeg_files)
        /\ \A k \in 1..Len(jpeg_files) :
              exposure_times[k] = ToFloat32(times_by_file[jpeg_files[k]])

C4_Ladder == <<Rat(1, 8000), Rat(1, 1000), Rat(1, 125), Rat(1, 15), Rat(1, 2)>>

\* the time the j-th file of the sorted list must get (index j - 1)
C4_Expected(j) ==
    IF extracted[j] # None THEN extracted[j]
    ELSE IF j - 1 < 5 THEN C4_Ladder[j] ELSE C4_Ladder[5]

\* C4: in process_cr2_files a file whose exposure time cannot be extracted
\* gets the ladder value at its index in the sorted file list (the last
\* ladder value from index 5 on), a file whose time was extracted keeps it,
\* and after the loop there is exactly one time per CR2 file.
C4_FallbackLadderByPosition ==
    /\ prog = "cr2" /\ pc = "c_extract" =>
          /\ Len(cr2_exposure_times) = Len(extracted)
          /\ \A j \in 1..Len(extracted) : cr2_exposure_times[j] = C4_Expected(j)
    /\ times_by_file # Unset =>
          /\ Len(times_by_file) = Len(image_files)
          /\ Len(extracted) = Len(image_files)
          /\ \A j \in 1..Len(image_files) : times_by_file[j] = C4_Expected(j)

\* the metadata loop has ended on six files, the sixth of them (index 5,
\* beyond the ladder) and the first without an extractable time, another with one
C4_Witness ==
    /\ times_by_file # Unset /\ Len(times_by_file) = 6
    /\ extracted[6] = None /\ extracted[1] = None /\ extracted[3] # None

\* the 8-bit values a float sample may be stored as: scaled, rounded down or
\* to nearest, and clamped to [0, 255]
C5_Clamped(x) == {Clamp(F32Trunc(x), 0, 255), Clamp(F32RoundEven(x), 0, 255)}

C5_FileClamped(name, out, gain) ==
    name \in DOMAIN files =>
        \A i \in 1..Len(out) :
            files[name][i] \in C5_Clamped(F32Mul(F32Mul(F(gain), out[i]), F(255)))

\* C5: every tone-mapped 8-bit value written equals the operator's output
\* (times the 3x gain of Drago and Mantiuk in merge_hdr_opencv) scaled to
\* 0..255 and clamped to [0, 255]; it never wraps modulo 256.
C5_WrittenValuesClamped ==
    /\ prog = "script" => C5_FileClamped("ldr_jpg", scene.drago, 1)
    /\ prog \in {"merge", "cr2"} =>
          /\ C5_FileClamped("drago", scene.drago, 3)
          /\ C5_FileClamped("reinhard", scene.reinhard, 1)
          /\ C5_FileClamped("mantiuk", scene.mantiuk, 3)

C6_Ran(st) == \E i \in 1..Len(stages) : stages[i] = st
C6_Before(a, b) ==
    \A j \in 1..Len(stages) : stages[j] = b => \E i \in 1..(j - 1) : stages[i] = a

\* C6: in a run of merge_hdr_opencv every stage executes at most once,
\* alignment before calibration, calibration before the merge, the merge
\* before the HDR file, the TIFF and every tone-mapped image, and the merge
\* uses the response curve this run calibrated on the aligned images.
C6_StagesInStrictSequence ==
    /\ \A i, j \in 1..Len(stages) : stages[i] = stages[j] => i = j
    /\ C6_Before("align", "calibrate")
    /\ C6_Before("calibrate", "merge")
    /\ \A out \in {"hdr", "tiff", "drago", "reinhard", "mantiuk"} : C6_Before("merge", out)
    /\ prog \in {"merge", "cr2"} /\ files # NoFiles => C6_Ran("merge")
    /\ C6_Ran("calibrate") /\ exc = NoExc =>
          responseDebevec # None /\ responseDebevec.aligned
    /\ merged_with # None =>
          /\ merged_with = responseDebevec
          /\ merged_with.aligned /\ merged_with.n = Len(images)

\* a direct call has run every stage and returned
C6_Witness ==
    /\ prog = "merge" /\ pc = "done" /\ Len(stages) = 8
    /\ merged_with # None /\ DOMAIN files = {"hdr", "tiff_16bit", "drago", "reinhard", "mantiuk"}

\* C7: when merge_hdr_opencv rejects its input (ValueError) it has created
\* no output directory and written no file.
C7_RejectionLeavesNoTrace ==
    exc = "ValueError" => output_dir # "created" /\ files = NoFiles

\* C8: exposures of different shapes never reach alignment, calibration or
\* merging in merge_hdr_opencv, nor the merge call of process_hdr.py.
C8_MismatchedShapesRejected ==
    /\ InMergeStages => SameShape(images)
    /\ prog = "script" /\ pc = "s_merge" =>
          \A i, j \in Loaded(images) : images[i].shape = images[j].shape

C9_Max == SeqMax(hdrDebevec)
C9_Positive(x) == F32Less(F32Zero, x)
C9_Negative(x) == F32Less(x, F32Zero)

\* the part of C9 that survives float32 rounding, with the values the
\* maximum may map to
C9_Scaling(top) ==
    tiff_16bit # Unset =>
        IF C9_Positive(C9_Max)
        THEN \A i \in 1..Len(hdrDebevec) :
                /\ tiff_16bit[i] \in 0..52428
                /\ hdrDebevec[i] = C9_Max => tiff_16bit[i] \in top
                /\ C9_Negative(hdrDebevec[i]) => tiff_16bit[i] = 0
        ELSE \A i \in 1..Len(hdrDebevec) : tiff_16bit[i] = 0

\* C9 as claimed: the 16-bit TIFF samples lie in [0, 52428], the maximum HDR
\* value maps to 52428 and negative values to 0; with a maximum that is not
\* positive every sample is 0.
C9_MaxMapsTo52428 == C9_Scaling({52428})

\* C9 as amended: as claimed, but the maximum HDR value maps to 52427 or to
\* 52428: the float32 product max * (52428 / max) can round to just below
\* 52428 before it is truncated.
C9_MaxMapsNear52428 == C9_Scaling({52427, 52428})

\* a TIFF was written whose maximum was stored as 52427 and a negative
\* sample as 0
C9_Witness ==
    /\ tiff_16bit # Unset /\ "tiff_16bit" \in DOMAIN files
    /\ \E i, j \in 1..Len(hdrDebevec) :
          /\ hdrDebevec[i] = C9_Max /\ tiff_16bit[i] = 52427
          /\ C9_Negative(hdrDebevec[j]) /\ tiff_16bit[j] = 0

\* what each source yields on its own
C10_Rawpy(f, l) ==
    IF l.rawpy /\ f.raw_opens THEN f.raw_exposure ELSE None
C10_Exifread(f, l) ==
    IF l.exifread /\ f.exif.kind = "tag" /\ f.exif.den # 0
    THEN Rat(f.exif.num, f.exif.den) ELSE None
C10_Pillow(f, l) ==
    IF l.PIL /\ f.pil.kind = "tag" THEN f.pil.value ELSE None

\* C10: extract_exposure_time_from_raw returns what the first of rawpy,
\* exifread and Pillow that yields an exposure time yields, whatever made the
\* earlier ones fail, and None only when all three yield nothing.
C10_FallbackChain ==
    prog = "extract" /\ pc = "done" =>
        exposure_time =
            IF C10_Rawpy(cr2_file, libs) # None THEN C10_Rawpy(cr2_file, libs)
            ELSE IF C10_Exifread(cr2_file, libs) # None THEN C10_Exifread(cr2_file, libs)
            ELSE C10_Pillow(cr2_file, libs)
====
